---- MODULE Spec2Model ----
(***************************************************************************)
(* Kernel trees of george (templates/kernels.h): the abstract Kernel, the  *)
(* Operator/Sum/Product combinators, and the two generated leaf families   *)
(* (stationary leaves over a Metric, additive leaves over a Subspace).     *)
(*                                                                         *)
(* A tree is an arena: kern[n] is the object at "address" n, kernel1 and   *)
(* kernel2 are the owning pointers of an Operator (0 is the null pointer). *)
(* Doubles are modelled as integers.  Indices are 0-based as in the C++;   *)
(* TLA+ sequences are 1-based, so element i of a vector is vector[i + 1].  *)
(***************************************************************************)
EXTENDS Integers, Sequences, FiniteSets

\* ------------------------------------------------------------------ bounds

\* set_parameter values range over -1 .. MaxVal
MaxVal == 1
\* feature coordinates range over 0 .. MaxX
MaxX == 1
\* the caller's gradient buffer holds size(root) + BufSlack entries
BufSlack == 1
\* get_parameter / set_parameter are called with indices up to size(root) + OverIdx
OverIdx == 2

V == -1 .. MaxVal
\* what the caller's buffer may hold before a gradient call
Fills == {-7, 5}

\* ------------------------------------------------- construction (arenas)

NoMetric == [ndim |-> 0, vector |-> << >>]
NoSubspace == [ndim |-> 0, axes |-> << >>]

\* Kernel () {}
NewKernel ==
    [cls |-> "Kernel", kernel1 |-> 0, kernel2 |-> 0, size_ |-> 0,
     param |-> << >>, metric |-> NoMetric, subspace |-> NoSubspace]

\* Operator (k1, k2) : kernel1_(k1), kernel2_(k2)
NewOperator(c, k1, k2) ==
    [cls |-> c, kernel1 |-> k1, kernel2 |-> k2, size_ |-> 0,
     param |-> << >>, metric |-> NoMetric, subspace |-> NoSubspace]

NewSum(k1, k2) == NewOperator("Sum", k1, k2)

NewProduct(k1, k2) == NewOperator("Product", k1, k2)

\* stationary leaf: size_(|params|), metric_(metric), param_*_(args)
NewStationary(p, m) ==
    [cls |-> "Stationary", kernel1 |-> 0, kernel2 |-> 0, size_ |-> Len(p),
     param |-> p, metric |-> m, subspace |-> NoSubspace]

\* additive leaf: size_(|params|), subspace_(subspace), param_*_(args)
NewAdditive(p, s) ==
    [cls |-> "Additive", kernel1 |-> 0, kernel2 |-> 0, size_ |-> Len(p),
     param |-> p, metric |-> NoMetric, subspace |-> s]

\* The trees the callers build.  The root is the last node of an arena.
Shapes ==
    << \* 1: a stationary leaf alone, one own hyperparameter, metric of size 1
       << NewStationary(<<1>>, [ndim |-> 2, vector |-> <<1>>]) >>,
       \* 2: an additive leaf alone over an empty Subspace
       << NewAdditive(<<1, -1>>, [ndim |-> 2, axes |-> << >>]) >>,
       \* 3: Sum(stationary, additive)
       << NewStationary(<<1>>, [ndim |-> 2, vector |-> <<0>>]),
          NewAdditive(<<-1>>, [ndim |-> 2, axes |-> <<0, 1>>]),
          NewSum(1, 2) >>,
       \* 4: Product(additive, stationary without own parameters, metric of size 2)
       << NewAdditive(<<1>>, [ndim |-> 2, axes |-> <<1>>]),
          NewStationary(<< >>, [ndim |-> 2, vector |-> <<1, -1>>]),
          NewProduct(1, 2) >>,
       \* 5: Product(Sum(additive, additive over no axes), Sum(additive, Kernel))
       << NewAdditive(<<1>>, [ndim |-> 2, axes |-> <<0>>]),
          NewAdditive(<<0>>, [ndim |-> 2, axes |-> << >>]),
          NewSum(1, 2),
          NewAdditive(<<-1>>, [ndim |-> 2, axes |-> <<1, 0>>]),
          NewKernel,
          NewSum(4, 5),
          NewProduct(3, 6) >>,
       \* 6: Sum(Product(stationary, additive without parameters),
       \*        stationary without own parameters)
       << NewStationary(<<1>>, [ndim |-> 2, vector |-> <<1>>]),
          NewAdditive(<< >>, [ndim |-> 2, axes |-> <<0, 1>>]),
          NewProduct(1, 2),
          NewStationary(<< >>, [ndim |-> 2, vector |-> <<0>>]),
          NewSum(3, 4) >>,
       \* 7: Product(Product(additive, additive), additive)
       << NewAdditive(<<1>>, [ndim |-> 2, axes |-> <<0>>]),
          NewAdditive(<<0>>, [ndim |-> 2, axes |-> <<1>>]),
          NewProduct(1, 2),
          NewAdditive(<<-1>>, [ndim |-> 2, axes |-> <<0, 1>>]),
          NewProduct(3, 4) >>
    >>

\* ----------------------------------------------------------------- state

VARIABLES
    kern,     \* the objects of the tree: kern[n] is the node at address n
    pre,      \* kern as it was when that call was made
    size0,    \* size0[n]: size() of node n right after construction
    call,     \* the call on the root that has just completed, with its
              \* arguments; op = "idle" once the caller has taken the result
    ret,      \* what that call returned (0 for a void method)
    grad,     \* the caller's buffer after that call (empty if it took none)
    written   \* the buffer indices that call stored into

vars == <<kern, pre, size0, call, ret, grad, written>>

root == Len(kern)

IsOperator(k, n) == k[n].cls \in {"Sum", "Product"}

\* ------------------------------------------------ Metric (metrics.h)

Metric_size(m) == Len(m.vector)

Metric_get_ndim(m) == m.ndim

\* what a read beyond the end of the vector finds.  No call the model makes
\* reads there (see InContract); only a wrongly routed index could.
Beyond == {99}

Metric_get_parameter(m, i) ==
    IF i < Len(m.vector) THEN m.vector[i + 1] ELSE CHOOSE b \in Beyond : TRUE

\* a store beyond the end of the vector lands outside the tree
Metric_set_parameter(m, i, v) ==
    IF i < Len(m.vector) THEN [m EXCEPT !.vector[i + 1] = v] ELSE m

\* the weight of axis d (1-based): the metric's own parameter, or 1
Metric_weight(m, d) == IF d <= Len(m.vector) THEN m.vector[d] ELSE 1

RECURSIVE Metric_value_loop(_, _, _, _)
Metric_value_loop(m, x1, x2, d) ==
    IF d > m.ndim THEN 0
    ELSE Metric_weight(m, d) * (x1[d] - x2[d]) * (x1[d] - x2[d])
         + Metric_value_loop(m, x1, x2, d + 1)

\* r2: the squared distance
Metric_value(m, x1, x2) == Metric_value_loop(m, x1, x2, 1)

\* writes d r2 / d vector[i] into g.buf[off + i] for every i < size()
Metric_gradient(m, x1, x2, g, off) ==
    [buf |-> [j \in DOMAIN g.buf |->
                IF off <= j /\ j < off + Len(m.vector)
                THEN (x1[j - off + 1] - x2[j - off + 1])
                     * (x1[j - off + 1] - x2[j - off + 1])
                ELSE g.buf[j]],
     w |-> g.w \cup {j \in DOMAIN g.buf : off <= j /\ j < off + Len(m.vector)}]

\* ------------------------------------------------ Subspace (subspace.h)

Subspace_get_naxes(s) == Len(s.axes)

Subspace_get_axis(s, i) == s.axes[i + 1]

Subspace_get_ndim(s) == s.ndim

\* -------------------------------------- formula families (the catalog)

RECURSIVE SeqSum(_, _)
SeqSum(p, j) == IF j > Len(p) THEN 0 ELSE p[j] + SeqSum(p, j + 1)

RECURSIVE Poly(_, _, _)
Poly(p, j, t) == IF j > Len(p) THEN 0 ELSE p[j] * (t + j) + Poly(p, j + 1, t)

\* stationary family: value(r2) = r2 + sum_j p[j] * (r2 + j)
Stationary_get_value(p, r2) == r2 + Poly(p, 1, r2)

\* d value / d p[j]   (j is 1-based)
Stationary_param_gradient(p, j, r2) == r2 + j

\* d value / d r2
Stationary_radial_gradient(p, r2) == 1 + SeqSum(p, 1)

\* additive family: value(a, b) = (a - b)^2 + sum_j p[j] * (a * b + j)
Additive_get_value(p, a, b) == (a - b) * (a - b) + Poly(p, 1, a * b)

\* d value / d p[j]   (j is 1-based)
Additive_param_gradient(p, j, a, b) == a * b + j

\* ------------------------------------------------------------- size()

RECURSIVE size(_, _)

Kernel_size(k, n) == 0

\* the bug of counting the left child twice
Operator_size_left_twice(k, n) == size(k, k[n].kernel1) + size(k, k[n].kernel1)

Operator_size(k, n) == size(k, k[n].kernel1) + size(k, k[n].kernel2)

Stationary_size(k, n) == Metric_size(k[n].metric) + k[n].size_

Additive_size(k, n) == k[n].size_

\* virtual dispatch
size(k, n) ==
    CASE IsOperator(k, n) -> Operator_size(k, n)
      [] k[n].cls = "Stationary" -> Stationary_size(k, n)
      [] k[n].cls = "Additive" -> Additive_size(k, n)
      [] OTHER -> Kernel_size(k, n)

\* ---------------------------------------------------------- get_ndim()

RECURSIVE get_ndim(_, _)
get_ndim(k, n) ==
    CASE IsOperator(k, n) -> get_ndim(k, k[n].kernel1)
      [] k[n].cls = "Stationary" -> Metric_get_ndim(k[n].metric)
      [] k[n].cls = "Additive" -> Subspace_get_ndim(k[n].subspace)
      [] OTHER -> 0

\* ------------------------------------------------------ get_parameter()

RECURSIVE get_parameter(_, _, _)

Kernel_get_parameter(k, n, i) == 0

\* the bug of handing the right child the index unshifted
Operator_get_parameter_unshifted(k, n, i) ==
    LET n1 == size(k, k[n].kernel1)
    IN  IF i < n1 THEN get_parameter(k, k[n].kernel1, i)
        ELSE get_parameter(k, k[n].kernel2, i)

Operator_get_parameter(k, n, i) ==
    LET n1 == size(k, k[n].kernel1)
    IN  IF i < n1 THEN get_parameter(k, k[n].kernel1, i)
        ELSE get_parameter(k, k[n].kernel2, i - n1)

\* one generated "if (i == j) return param_j_" per declared hyperparameter
Stationary_get_parameter(k, n, i) ==
    IF i < Len(k[n].param) THEN k[n].param[i + 1]
    ELSE Metric_get_parameter(k[n].metric, i - k[n].size_)

Additive_get_parameter(k, n, i) ==
    IF i < Len(k[n].param) THEN k[n].param[i + 1]
    ELSE 0

get_parameter(k, n, i) ==
    CASE IsOperator(k, n) -> Operator_get_parameter(k, n, i)
      [] k[n].cls = "Stationary" -> Stationary_get_parameter(k, n, i)
      [] k[n].cls = "Additive" -> Additive_get_parameter(k, n, i)
      [] OTHER -> Kernel_get_parameter(k, n, i)

\* ------------------------------------------------------ set_parameter()
\* Each returns the arena after the call.

RECURSIVE set_parameter(_, _, _, _)

Kernel_set_parameter(k, n, i, v) == k

Operator_set_parameter(k, n, i, v) ==
    LET n1 == size(k, k[n].kernel1)
    IN  IF i < n1 THEN set_parameter(k, k[n].kernel1, i, v)
        ELSE set_parameter(k, k[n].kernel2, i - n1, v)

\* the bug of handing the Metric the index without taking size_ off
Stationary_set_parameter_unshifted(k, n, i, v) ==
    IF i < Len(k[n].param) THEN [k EXCEPT ![n].param[i + 1] = v]
    ELSE [k EXCEPT ![n].metric = Metric_set_parameter(@, i, v)]

Stationary_set_parameter(k, n, i, v) ==
    IF i < Len(k[n].param) THEN [k EXCEPT ![n].param[i + 1] = v]
    ELSE [k EXCEPT ![n].metric = Metric_set_parameter(@, i - k[n].size_, v)]

\* the bug of letting the last generated branch catch every other index
Additive_set_parameter_catch_all(k, n, i, v) ==
    IF Len(k[n].param) = 0 THEN k
    ELSE IF i < Len(k[n].param) - 1 THEN [k EXCEPT ![n].param[i + 1] = v]
    ELSE [k EXCEPT ![n].param[Len(k[n].param)] = v]

Additive_set_parameter(k, n, i, v) ==
    IF i < Len(k[n].param) THEN [k EXCEPT ![n].param[i + 1] = v]
    ELSE k

set_parameter(k, n, i, v) ==
    CASE IsOperator(k, n) -> Operator_set_parameter(k, n, i, v)
      [] k[n].cls = "Stationary" -> Stationary_set_parameter(k, n, i, v)
      [] k[n].cls = "Additive" -> Additive_set_parameter(k, n, i, v)
      [] OTHER -> Kernel_set_parameter(k, n, i, v)

\* Index i, routed from node n, stays inside what the source defines: an
\* out-of-range index that reaches a stationary leaf is handed to the Metric
\* beyond its vector, which this model does not follow.
RECURSIVE InContract(_, _, _)
InContract(k, n, i) ==
    CASE IsOperator(k, n) ->
            LET n1 == size(k, k[n].kernel1)
            IN  IF i < n1 THEN InContract(k, k[n].kernel1, i)
                ELSE InContract(k, k[n].kernel2, i - n1)
      [] k[n].cls = "Stationary" -> i < size(k, n)
      [] OTHER -> TRUE

\* --------------------------------------------------------------- value()

RECURSIVE value(_, _, _, _)

Kernel_value(k, n, x1, x2) == 0

Sum_value(k, n, x1, x2) ==
    value(k, k[n].kernel1, x1, x2) + value(k, k[n].kernel2, x1, x2)

\* the bug of a Product copied from Sum with the operator left as it was
Product_value_added(k, n, x1, x2) ==
    value(k, k[n].kernel1, x1, x2) + value(k, k[n].kernel2, x1, x2)

Product_value(k, n, x1, x2) ==
    value(k, k[n].kernel1, x1, x2) * value(k, k[n].kernel2, x1, x2)

Stationary_value(k, n, x1, x2) ==
    LET r2 == Metric_value(k[n].metric, x1, x2)
    IN  Stationary_get_value(k[n].param, r2)

\* for (i = 0; i < n; ++i) { j = get_axis(i); value += get_value(.., x1[j], x2[j]); }
RECURSIVE Additive_value_loop(_, _, _, _, _, _)
Additive_value_loop(k, n, x1, x2, i, acc) ==
    IF i < Subspace_get_naxes(k[n].subspace)
    THEN LET j == Subspace_get_axis(k[n].subspace, i)
         IN  Additive_value_loop(k, n, x1, x2, i + 1,
                 acc + Additive_get_value(k[n].param, x1[j + 1], x2[j + 1]))
    ELSE acc

Additive_value(k, n, x1, x2) == Additive_value_loop(k, n, x1, x2, 0, 0)

value(k, n, x1, x2) ==
    CASE k[n].cls = "Sum" -> Sum_value(k, n, x1, x2)
      [] k[n].cls = "Product" -> Product_value(k, n, x1, x2)
      [] k[n].cls = "Stationary" -> Stationary_value(k, n, x1, x2)
      [] k[n].cls = "Additive" -> Additive_value(k, n, x1, x2)
      [] OTHER -> Kernel_value(k, n, x1, x2)

\* ------------------------------------------------------------ gradient()
\* g = [buf, w]: the caller's buffer and the set of indices stored into so
\* far; off is where the pointer handed to the callee points into buf.

\* grad[i] = v
Store(g, i, v) == [buf |-> [g.buf EXCEPT ![i] = v], w |-> g.w \cup {i}]

\* for (i = lo; i < hi; ++i) grad[i] *= c
RECURSIVE Scale(_, _, _, _)
Scale(g, lo, hi, c) ==
    IF lo < hi THEN Scale(Store(g, lo, g.buf[lo] * c), lo + 1, hi, c)
    ELSE g

RECURSIVE gradient(_, _, _, _, _, _)

Kernel_gradient(k, n, x1, x2, g, off) == g

\* the bug of handing both children the same pointer
Sum_gradient_same_pointer(k, n, x1, x2, g, off) ==
    LET g1 == gradient(k, k[n].kernel1, x1, x2, g, off)
    IN  gradient(k, k[n].kernel2, x1, x2, g1, off)

Sum_gradient(k, n, x1, x2, g, off) ==
    LET n1 == size(k, k[n].kernel1)
        g1 == gradient(k, k[n].kernel1, x1, x2, g, off)
    IN  gradient(k, k[n].kernel2, x1, x2, g1, off + n1)

\* the bug of scaling each half by the value of its own child
Product_gradient_own_side(k, n, x1, x2, g, off) ==
    LET n1 == size(k, k[n].kernel1)
        n2 == size(k, n)
        g1 == gradient(k, k[n].kernel1, x1, x2, g, off)
        g2 == gradient(k, k[n].kernel2, x1, x2, g1, off + n1)
        k1 == value(k, k[n].kernel1, x1, x2)
        k2 == value(k, k[n].kernel2, x1, x2)
        g3 == Scale(g2, off, off + n1, k1)
    IN  Scale(g3, off + n1, off + n2, k2)

Product_gradient(k, n, x1, x2, g, off) ==
    LET n1 == size(k, k[n].kernel1)
        n2 == size(k, n)
        g1 == gradient(k, k[n].kernel1, x1, x2, g, off)
        g2 == gradient(k, k[n].kernel2, x1, x2, g1, off + n1)
        k1 == value(k, k[n].kernel1, x1, x2)
        k2 == value(k, k[n].kernel2, x1, x2)
        g3 == Scale(g2, off, off + n1, k2)
    IN  Scale(g3, off + n1, off + n2, k1)

\* grad[j] = param_j_gradient(params, r2) for each declared hyperparameter
RECURSIVE Stationary_gradient_own(_, _, _, _, _)
Stationary_gradient_own(p, r2, g, off, j) ==
    IF j < Len(p)
    THEN Stationary_gradient_own(p, r2,
             Store(g, off + j, Stationary_param_gradient(p, j + 1, r2)), off, j + 1)
    ELSE g

\* the bug of running the chain-rule loop from 0 instead of size_
Stationary_gradient_scale_all(k, n, x1, x2, g, off) ==
    LET nn == size(k, n)
        r2 == Metric_value(k[n].metric, x1, x2)
        r2grad == Stationary_radial_gradient(k[n].param, r2)
        g1 == Stationary_gradient_own(k[n].param, r2, g, off, 0)
        g2 == Metric_gradient(k[n].metric, x1, x2, g1, off + k[n].size_)
    IN  Scale(g2, off, off + nn, r2grad)

Stationary_gradient(k, n, x1, x2, g, off) ==
    LET nn == size(k, n)
        r2 == Metric_value(k[n].metric, x1, x2)
        r2grad == Stationary_radial_gradient(k[n].param, r2)
        g1 == Stationary_gradient_own(k[n].param, r2, g, off, 0)
        g2 == Metric_gradient(k[n].metric, x1, x2, g1, off + k[n].size_)
    IN  Scale(g2, off + k[n].size_, off + nn, r2grad)

\* grad[j] = 0.0 for each declared hyperparameter
RECURSIVE Additive_gradient_zero(_, _, _, _)
Additive_gradient_zero(p, g, off, j) ==
    IF j < Len(p) THEN Additive_gradient_zero(p, Store(g, off + j, 0), off, j + 1)
    ELSE g

\* grad[j] += param_j_gradient(params, a, b) for each declared hyperparameter
RECURSIVE Additive_gradient_add(_, _, _, _, _, _)
Additive_gradient_add(p, a, b, g, off, j) ==
    IF j < Len(p)
    THEN Additive_gradient_add(p, a, b,
             Store(g, off + j, g.buf[off + j] + Additive_param_gradient(p, j + 1, a, b)),
             off, j + 1)
    ELSE g

\* for (i = 0; i < n; ++i) { j = get_axis(i); ... }
RECURSIVE Additive_gradient_loop(_, _, _, _, _, _, _)
Additive_gradient_loop(k, n, x1, x2, g, off, i) ==
    IF i < Subspace_get_naxes(k[n].subspace)
    THEN LET j == Subspace_get_axis(k[n].subspace, i)
         IN  Additive_gradient_loop(k, n, x1, x2,
                 Additive_gradient_add(k[n].param, x1[j + 1], x2[j + 1], g, off, 0),
                 off, i + 1)
    ELSE g

\* the bug of accumulating into the buffer without clearing it first
Additive_gradient_uncleared(k, n, x1, x2, g, off) ==
    IF Len(k[n].param) > 0
    THEN Additive_gradient_loop(k, n, x1, x2, g, off, 0)
    ELSE g

Additive_gradient(k, n, x1, x2, g, off) ==
    LET g1 == Additive_gradient_zero(k[n].param, g, off, 0)
    IN  IF Len(k[n].param) > 0
        THEN Additive_gradient_loop(k, n, x1, x2, g1, off, 0)
        ELSE g1

gradient(k, n, x1, x2, g, off) ==
    CASE k[n].cls = "Sum" -> Sum_gradient(k, n, x1, x2, g, off)
      [] k[n].cls = "Product" -> Product_gradient(k, n, x1, x2, g, off)
      [] k[n].cls = "Stationary" -> Stationary_gradient(k, n, x1, x2, g, off)
      [] k[n].cls = "Additive" -> Additive_gradient(k, n, x1, x2, g, off)
      [] OTHER -> Kernel_gradient(k, n, x1, x2, g, off)

\* ------------------------------------------------------------- the caller

NoVec == << >>
NoBuf == [j \in {} |-> 0]

\* the feature vectors a caller passes: length get_ndim() of the root
Points == [1 .. get_ndim(kern, root) -> 0 .. MaxX]

\* a buffer of size(root) + BufSlack entries, every entry holding f
FreshBuf(f) ==
    [buf |-> [j \in 0 .. (size(kern, root) + BufSlack - 1) |-> f], w |-> {}]

Idle == [op |-> "idle", i |-> 0, v |-> 0, x1 |-> NoVec, x2 |-> NoVec, fill |-> 0]

Init ==
    \E s \in DOMAIN Shapes :
        /\ kern = Shapes[s]
        /\ pre = Shapes[s]
        /\ size0 = [n \in DOMAIN Shapes[s] |-> size(Shapes[s], n)]
        /\ call = Idle
        /\ ret = 0
        /\ grad = NoBuf
        /\ written = {}

CallSize ==
    /\ call = Idle
    /\ call' = [Idle EXCEPT !.op = "size"]
    /\ ret' = size(kern, root)
    /\ pre' = kern
    /\ UNCHANGED <<kern, size0, grad, written>>

CallGetNdim ==
    /\ call = Idle
    /\ call' = [Idle EXCEPT !.op = "get_ndim"]
    /\ ret' = get_ndim(kern, root)
    /\ pre' = kern
    /\ UNCHANGED <<kern, size0, grad, written>>

CallSetParameter ==
    /\ call = Idle
    /\ \E i \in 0 .. (size(kern, root) + OverIdx), v \in V :
        /\ InContract(kern, root, i)
        /\ kern' = set_parameter(kern, root, i, v)
        /\ call' = [Idle EXCEPT !.op = "set_parameter", !.i = i, !.v = v]
        /\ pre' = kern
        /\ UNCHANGED <<size0, ret, grad, written>>

CallGetParameter ==
    /\ call = Idle
    /\ \E i \in 0 .. (size(kern, root) + OverIdx) :
        /\ InContract(kern, root, i)
        /\ call' = [Idle EXCEPT !.op = "get_parameter", !.i = i]
        /\ ret' = get_parameter(kern, root, i)
        /\ pre' = kern
        /\ UNCHANGED <<kern, size0, grad, written>>

CallValue ==
    /\ call = Idle
    /\ \E x1 \in Points, x2 \in Points :
        /\ call' = [Idle EXCEPT !.op = "value", !.x1 = x1, !.x2 = x2]
        /\ ret' = value(kern, root, x1, x2)
        /\ pre' = kern
        /\ UNCHANGED <<kern, size0, grad, written>>

\* the caller evaluates the same pair once more, with no call in between
CallValueAgain ==
    /\ call.op = "value"
    /\ ret' = value(kern, root, call.x1, call.x2)
    /\ pre' = kern
    /\ UNCHANGED <<kern, size0, call, grad, written>>

\* the bug of a gradient that keeps its first entry in the first parameter
CallGradient_storing ==
    /\ call = Idle
    /\ \E x1 \in Points, x2 \in Points, f \in Fills :
        LET g == gradient(kern, root, x1, x2, FreshBuf(f), 0)
        IN  /\ call' = [Idle EXCEPT !.op = "gradient", !.x1 = x1, !.x2 = x2, !.fill = f]
            /\ grad' = g.buf
            /\ written' = g.w
            /\ pre' = kern
            /\ kern' = IF size(kern, root) > 0 /\ g.buf[0] \in V
                       THEN set_parameter(kern, root, 0, g.buf[0]) ELSE kern
            /\ UNCHANGED <<size0, ret>>

CallGradient ==
    /\ call = Idle
    /\ \E x1 \in Points, x2 \in Points, f \in Fills :
        LET g == gradient(kern, root, x1, x2, FreshBuf(f), 0)
        IN  /\ call' = [Idle EXCEPT !.op = "gradient", !.x1 = x1, !.x2 = x2, !.fill = f]
            /\ grad' = g.buf
            /\ written' = g.w
            /\ pre' = kern
            /\ UNCHANGED <<kern, size0, ret>>

\* the caller takes the result and gives up the buffer
Return ==
    /\ call # Idle
    /\ call' = Idle
    /\ ret' = 0
    /\ grad' = NoBuf
    /\ written' = {}
    /\ pre' = kern
    /\ UNCHANGED <<kern, size0>>

Next ==
    \/ CallSize
    \/ CallGetNdim
    \/ CallSetParameter
    \/ CallGetParameter
    \/ CallValue
    \/ CallValueAgain
    \/ CallGradient
    \/ Return

Spec == Init /\ [][Next]_vars

\* ------------------------------------------------------------ properties

\* the flat parameter vector of the subtree at n: left subtree, then right
\* subtree; for a leaf its own hyperparameters, then its Metric's vector
RECURSIVE Flat(_, _)
Flat(k, n) ==
    IF IsOperator(k, n) THEN Flat(k, k[n].kernel1) \o Flat(k, k[n].kernel2)
    ELSE k[n].param \o k[n].metric.vector

\* the buffer the caller handed to the completed gradient call
CallBuf == FreshBuf(call.fill)

\* gradient() of node n alone, on the completed call's arguments
G(n) == gradient(kern, n, call.x1, call.x2, CallBuf, 0)

\* value() of node n alone, on the completed call's arguments
Val(n) == value(kern, n, call.x1, call.x2)

\* some set_parameter has changed the tree since construction
Tuned == \A s \in DOMAIN Shapes : kern # Shapes[s]

\* C1: for every node n of the tree and every index i with 0 <= i < size(n),
\* get_parameter(n, i) is element i of the concatenation of the leaves'
\* parameter vectors, left subtree first; at an Operator it is
\* get_parameter(kernel1, i) when i < size(kernel1) and
\* get_parameter(kernel2, i - size(kernel1)) otherwise; and a completed
\* get_parameter(root, i) call returned that element.
C1_GetParameterIsFlat ==
    /\ \A n \in DOMAIN kern :
          /\ Len(Flat(kern, n)) = size(kern, n)
          /\ \A i \in 0 .. (size(kern, n) - 1) :
                /\ get_parameter(kern, n, i) = Flat(kern, n)[i + 1]
                /\ IsOperator(kern, n) =>
                      LET sA == size(kern, kern[n].kernel1)
                      IN  get_parameter(kern, n, i) =
                            IF i < sA THEN get_parameter(kern, kern[n].kernel1, i)
                            ELSE get_parameter(kern, kern[n].kernel2, i - sA)
    /\ (call.op = "get_parameter" /\ call.i < size(kern, root))
          => ret = Flat(kern, root)[call.i + 1]

\* a get_parameter on a tuned tree nested two deep, whose index passes the
\* left subtree (itself an Operator) and lands in the right one
C1_Witness ==
    /\ call.op = "get_parameter"
    /\ Tuned
    /\ IsOperator(kern, root)
    /\ IsOperator(kern, kern[root].kernel1)
    /\ call.i >= size(kern, kern[root].kernel1)
    /\ call.i < size(kern, root)
    /\ ret # get_parameter(kern, root, 0)
    /\ ret # 0

\* C2: after set_parameter(root, i, v) with 0 <= i < size(root),
\* get_parameter(root, i) is v and get_parameter(root, j) is what it was
\* before the call for every other j in [0, size(root)).
C2_SetThenGet ==
    (call.op = "set_parameter" /\ call.i < size(pre, root)) =>
        /\ get_parameter(kern, root, call.i) = call.v
        /\ \A j \in 0 .. (size(pre, root) - 1) :
              j # call.i => get_parameter(kern, root, j) = get_parameter(pre, root, j)

\* a set_parameter that changes a Metric parameter of a stationary leaf
\* lying in the left subtree of a nested tree
C2_Witness ==
    /\ call.op = "set_parameter"
    /\ IsOperator(kern, root)
    /\ IsOperator(kern, kern[root].kernel1)
    /\ \E n \in DOMAIN kern :
          /\ kern[n].cls = "Stationary"
          /\ kern[n].metric # pre[n].metric
          /\ kern[n].size_ > 0
    /\ get_parameter(pre, root, call.i) # call.v

\* C3: in every reachable state every Sum or Product node has
\* size == size(left) + size(right), every stationary leaf has
\* size == own hyperparameter count + size(Metric), every additive leaf has
\* size == own hyperparameter count, and every node has the size it had at
\* construction.
C3_SizeFixed ==
    \A n \in DOMAIN kern :
        /\ size(kern, n) = size0[n]
        /\ IsOperator(kern, n) =>
              size(kern, n) = size(kern, kern[n].kernel1) + size(kern, kern[n].kernel2)
        /\ kern[n].cls = "Stationary" =>
              size(kern, n) = Len(kern[n].param) + Metric_size(kern[n].metric)
        /\ kern[n].cls = "Additive" => size(kern, n) = Len(kern[n].param)

\* a gradient call on a tuned, nested tree holding a stationary leaf
C3_Witness ==
    /\ call.op = "gradient"
    /\ Tuned
    /\ IsOperator(kern, root)
    /\ IsOperator(kern, kern[root].kernel1)
    /\ \E n \in DOMAIN kern : kern[n].cls = "Stationary" /\ kern[n].size_ > 0
    /\ size(kern, root) = 3

\* C4: for every Sum node value is value(left) + value(right) and for every
\* Product node value is value(left) * value(right), on the children's
\* current parameters, and a completed value call on the root returned it.
C4_ValueComposes ==
    call.op = "value" =>
        /\ ret = Val(root)
        /\ \A n \in DOMAIN kern :
              /\ kern[n].cls = "Sum" =>
                    Val(n) = Val(kern[n].kernel1) + Val(kern[n].kernel2)
              /\ kern[n].cls = "Product" =>
                    Val(n) = Val(kern[n].kernel1) * Val(kern[n].kernel2)
        /\ kern[root].cls = "Sum" =>
              ret = Val(kern[root].kernel1) + Val(kern[root].kernel2)
        /\ kern[root].cls = "Product" =>
              ret = Val(kern[root].kernel1) * Val(kern[root].kernel2)

\* a value call on a Product whose children's values make sum and product differ
C4_Witness ==
    /\ call.op = "value"
    /\ kern[root].cls = "Product"
    /\ kern[kern[root].kernel1].cls = "Sum"
    /\ ret # 0
    /\ ret # Val(kern[root].kernel1) + Val(kern[root].kernel2)

\* C5: after gradient on a Product(A, B): out[i] = gradient(A)[i] * value(B)
\* for i < sA and out[i] = gradient(B)[i - sA] * value(A) for
\* sA <= i < sA + sB (every Product node of the tree; the root's out is the
\* caller's buffer).
C5_ProductGradient ==
    call.op = "gradient" =>
        \A n \in DOMAIN kern :
            kern[n].cls = "Product" =>
                LET A == kern[n].kernel1
                    B == kern[n].kernel2
                    sA == size(kern, A)
                    sB == size(kern, B)
                    out == IF n = root THEN grad ELSE G(n).buf
                IN  /\ \A i \in 0 .. (sA - 1) : out[i] = G(A).buf[i] * Val(B)
                    /\ \A i \in sA .. (sA + sB - 1) : out[i] = G(B).buf[i - sA] * Val(A)

\* a gradient call on Product(Product(..), ..) whose two children have
\* different values and whose first and last entries are not zero
C5_Witness ==
    /\ call.op = "gradient"
    /\ kern[root].cls = "Product"
    /\ kern[kern[root].kernel1].cls = "Product"
    /\ Val(kern[root].kernel1) # Val(kern[root].kernel2)
    /\ grad[0] # 0
    /\ grad[size(kern, root) - 1] # 0
    /\ G(kern[root].kernel1).buf[0] # grad[0]

\* C6: after gradient on a stationary leaf with k own hyperparameters and a
\* Metric of size m: out[j] is the j-th hyperparameter partial derivative at
\* r2 = Metric.value(x1, x2) for j < k, and
\* out[k + i] = Metric.gradient(x1, x2)[i] * radial_gradient(params, r2)
\* for 0 <= i < m.
C6_StationaryGradient ==
    call.op = "gradient" =>
        \A n \in DOMAIN kern :
            kern[n].cls = "Stationary" =>
                LET kk == Len(kern[n].param)
                    m == Metric_size(kern[n].metric)
                    r2 == Metric_value(kern[n].metric, call.x1, call.x2)
                    mg == Metric_gradient(kern[n].metric, call.x1, call.x2, CallBuf, 0).buf
                    out == IF n = root THEN grad ELSE G(n).buf
                IN  /\ \A j \in 0 .. (kk - 1) :
                          out[j] = Stationary_param_gradient(kern[n].param, j + 1, r2)
                    /\ \A i \in 0 .. (m - 1) :
                          out[kk + i] =
                              mg[i] * Stationary_radial_gradient(kern[n].param, r2)

\* a gradient call on a stationary leaf with own and Metric parameters, where
\* the radial gradient is neither 0 nor 1 and the Metric's gradient is not 0
C6_Witness ==
    /\ call.op = "gradient"
    /\ kern[root].cls = "Stationary"
    /\ Len(kern[root].param) > 0
    /\ Metric_size(kern[root].metric) > 0
    /\ LET r2 == Metric_value(kern[root].metric, call.x1, call.x2)
       IN  /\ Stationary_radial_gradient(kern[root].param, r2) \notin {0, 1}
           /\ r2 # 0
    /\ grad[Len(kern[root].param)] # 0

\* C7: for an additive leaf whose Subspace has get_naxes() = 0, value is 0
\* and gradient stores 0 into every one of its size entries, whatever the
\* parameters and whatever the buffer held.
C7_NoAxes ==
    \A n \in DOMAIN kern :
        (kern[n].cls = "Additive" /\ Subspace_get_naxes(kern[n].subspace) = 0) =>
            /\ call.op = "value" => (Val(n) = 0 /\ (n = root => ret = 0))
            /\ call.op = "gradient" =>
                  /\ \A j \in 0 .. (size(kern, n) - 1) :
                        G(n).buf[j] = 0 /\ j \in G(n).w
                  /\ n = root =>
                        \A j \in 0 .. (size(kern, n) - 1) : grad[j] = 0 /\ j \in written

\* a gradient call on such a leaf, tuned, with non-zero parameters, on a
\* buffer that held something else
C7_Witness ==
    /\ call.op = "gradient"
    /\ kern[root].cls = "Additive"
    /\ Subspace_get_naxes(kern[root].subspace) = 0
    /\ Tuned
    /\ kern[root].size_ = 2
    /\ \A j \in 1 .. 2 : kern[root].param[j] # 0
    /\ call.fill # 0
    /\ written = {0, 1}

C9_SumGradient ==
    call.op = "gradient" =>
        \A n \in DOMAIN kern :
            kern[n].cls = "Sum" =>
                LET A == kern[n].kernel1
                    B == kern[n].kernel2
                    sA == size(kern, A)
                    sB == size(kern, B)
                    out == IF n = root THEN grad ELSE G(n).buf
                    w == IF n = root THEN written ELSE G(n).w
                IN  /\ \A i \in 0 .. (sA - 1) : out[i] = G(A).buf[i]
                    /\ \A i \in sA .. (sA + sB - 1) : out[i] = G(B).buf[i - sA]
                    /\ w = 0 .. (sA + sB - 1)
                    /\ \A i \in DOMAIN out : i >= sA + sB => out[i] = call.fill

\* a gradient call on a Sum over a Product, where the entries of the two
\* halves differ
C9_Witness ==
    /\ call.op = "gradient"
    /\ kern[root].cls = "Sum"
    /\ kern[kern[root].kernel1].cls = "Product"
    /\ size(kern, kern[root].kernel2) > 0
    /\ grad[0] # grad[size(kern, kern[root].kernel1)]
    /\ grad[0] # 0
    /\ Tuned

\* the leaves of the tree are all additive
AdditiveOnly(k) == \A n \in DOMAIN k : k[n].cls \in {"Sum", "Product", "Additive"}

\* C10: on a tree of Sum and Product nodes over additive leaves, an index
\* i >= size(root) is forwarded by an Operator to its right child as
\* i - size(left); set_parameter(root, i, v) leaves every object as it was
\* and get_parameter(root, i) returns 0.
C10_OutOfRangeAdditive ==
    (AdditiveOnly(pre) /\ call.i >= size(pre, root)) =>
        /\ call.op = "set_parameter" => kern = pre
        /\ call.op = "get_parameter" =>
              /\ ret = 0
              /\ IsOperator(kern, root) =>
                    ret = get_parameter(kern, kern[root].kernel2,
                                        call.i - size(kern, kern[root].kernel1))

\* an out-of-range set_parameter on a nested additive tree, with a value that
\* none of the parameters holds
C10_Witness ==
    /\ call.op = "set_parameter"
    /\ AdditiveOnly(pre)
    /\ IsOperator(pre, root)
    /\ IsOperator(pre, pre[root].kernel1)
    /\ call.i > size(pre, root)
    /\ \A j \in 0 .. (size(pre, root) - 1) : get_parameter(pre, root, j) # call.v

====
